---- MODULE Spec2Model ----
(***************************************************************************)
(* Model of the Teams gateway (bot_app.py) and of the backend's NLU and    *)
(* SQL generator (bot_backend/nlu_rules.py, bot_backend/n2sql/generator.py)*)
(*                                                                         *)
(* A text is a sequence of tokens.  A token is a maximal run of word       *)
(* characters (letters, digits), one punctuation character, or one         *)
(* whitespace character (SP).  Python's None text is the record field      *)
(* none = TRUE.  An Optional value is None (<<>>) or Some(x) (<<x>>).      *)
(***************************************************************************)
EXTENDS Integers, Sequences, FiniteSets, TLC

SP == " "
None == <<>>
Some(x) == <<x>>

\* ------------------------------------------------------------------------
\* Characters classes, lower(), strip(), int()
\* ------------------------------------------------------------------------
Punct == {"?", "/", "$", "=", ",", "€"}

IsSpace(tok) == tok = SP

\* \w of Python's re: a token that is not whitespace and not punctuation
IsWord(tok) == ~IsSpace(tok) /\ tok \notin Punct

\* the upper-case tokens of the vocabulary and their lower-case forms
UpperMap ==
    ("Facturas" :> "facturas") @@ ("HOY" :> "hoy") @@ ("PDP" :> "pdp")
    @@ ("S" :> "s") @@ ("USD" :> "usd")

lower(tok) == IF tok \in DOMAIN UpperMap THEN UpperMap[tok] ELSE tok

RECURSIVE LowerText(_)
LowerText(w) == IF w = <<>> THEN <<>> ELSE <<lower(Head(w))>> \o LowerText(Tail(w))

RECURSIVE lstrip(_)
lstrip(w) == IF w # <<>> /\ IsSpace(Head(w)) THEN lstrip(Tail(w)) ELSE w

RECURSIVE rstrip(_)
rstrip(w) ==
    IF w # <<>> /\ IsSpace(w[Len(w)]) THEN rstrip(SubSeq(w, 1, Len(w) - 1)) ELSE w

strip(w) == rstrip(lstrip(w))

\* (text or ""): None and the empty text both give the empty token sequence
OrEmpty(text) == IF text.none THEN <<>> ELSE text.toks

\* the numbers whose decimal form is a token of the vocabulary
Numbers == {0, 2, 3, 5, 13, 22, 35, 100}

Digits(n) == ToString(n)

\* str.isdigit() on a token
isdigit(tok) == \E n \in Numbers : Digits(n) = tok

\* int() of a digit token
ToInt(tok) == CHOOSE n \in Numbers : Digits(n) = tok

\* \d{1,2}: a run of one or two digits
IsDigits12(tok) == isdigit(tok) /\ ToInt(tok) < 100

DigitTokens == {Digits(n) : n \in Numbers}
DigitTokens12 == {t \in DigitTokens : IsDigits12(t)}

\* ------------------------------------------------------------------------
\* Regular expressions over token sequences.  A pattern is a sequence of
\* elements: B (\b), Tok(S) (one token out of S), Cap(S) (the same, as a
\* capturing group), CapAlt(S, S2) (a capturing group of alternatives that
\* are one token, S, or two adjacent tokens, S2, such as us\$), WS (\s+),
\* WS0 (\s*), SPC (one literal space), Opt(p) ((?:p)?).
\* ------------------------------------------------------------------------
B == [k |-> "b", s |-> {}, s2 |-> {}, cap |-> FALSE, sub |-> <<>>]
Tok(S) == [k |-> "t", s |-> S, s2 |-> {}, cap |-> FALSE, sub |-> <<>>]
Cap(S) == [k |-> "t", s |-> S, s2 |-> {}, cap |-> TRUE, sub |-> <<>>]
CapAlt(S, S2) == [k |-> "t", s |-> S, s2 |-> S2, cap |-> TRUE, sub |-> <<>>]
WS == [k |-> "ws", s |-> {}, s2 |-> {}, cap |-> FALSE, sub |-> <<>>]
WS0 == [k |-> "ws0", s |-> {}, s2 |-> {}, cap |-> FALSE, sub |-> <<>>]
SPC == [k |-> "sp", s |-> {}, s2 |-> {}, cap |-> FALSE, sub |-> <<>>]
Opt(p) == [k |-> "opt", s |-> {}, s2 |-> {}, cap |-> FALSE, sub |-> p]

\* the text of a group that matched two tokens
JoinTable == (<<"us", "$">> :> "us$") @@ (<<"s", "/">> :> "s/")

WordAt(w, j) == j \in 1..Len(w) /\ IsWord(w[j])

\* \b holds between token i-1 and token i
AtBoundary(w, i) == WordAt(w, i - 1) # WordAt(w, i)

RECURSIVE SkipSpaces(_, _)
SkipSpaces(w, i) == IF i <= Len(w) /\ IsSpace(w[i]) THEN SkipSpaces(w, i + 1) ELSE i

NoMatch == [ok |-> FALSE, groups |-> <<>>]

\* match elements k.. of pat against w from token i on; groups are the texts
\* of the capturing groups, in order
RECURSIVE MatchFrom(_, _, _, _, _)
MatchFrom(pat, k, w, i, caps) ==
    IF k > Len(pat) THEN [ok |-> TRUE, groups |-> caps]
    ELSE LET e == pat[k] IN
         CASE e.k = "b" ->
                IF AtBoundary(w, i) THEN MatchFrom(pat, k + 1, w, i, caps) ELSE NoMatch
           [] e.k = "t" ->
                IF i <= Len(w) /\ w[i] \in e.s
                THEN MatchFrom(pat, k + 1, w, i + 1,
                               IF e.cap THEN Append(caps, w[i]) ELSE caps)
                ELSE IF i < Len(w) /\ <<w[i], w[i + 1]>> \in e.s2
                THEN MatchFrom(pat, k + 1, w, i + 2,
                               IF e.cap THEN Append(caps, JoinTable[<<w[i], w[i + 1]>>])
                               ELSE caps)
                ELSE NoMatch
           [] e.k = "ws" ->
                IF i <= Len(w) /\ IsSpace(w[i])
                THEN MatchFrom(pat, k + 1, w, SkipSpaces(w, i), caps)
                ELSE NoMatch
           [] e.k = "ws0" -> MatchFrom(pat, k + 1, w, SkipSpaces(w, i), caps)
           [] e.k = "sp" ->
                IF i <= Len(w) /\ IsSpace(w[i])
                THEN MatchFrom(pat, k + 1, w, i + 1, caps)
                ELSE NoMatch
           [] e.k = "opt" ->
                LET rest == SubSeq(pat, k + 1, Len(pat))
                    with == MatchFrom(e.sub \o rest, 1, w, i, caps)
                IN IF with.ok THEN with ELSE MatchFrom(rest, 1, w, i, caps)

MinOf(S) == CHOOSE x \in S : \A y \in S : x <= y

\* a pattern \b(t1|t2|...)... can only match where one of its first tokens is
CanStartAt(pat, w, i) ==
    \/ Len(pat) < 2
    \/ pat[1].k # "b" \/ pat[2].k # "t"
    \/ /\ i <= Len(w)
       /\ \/ w[i] \in pat[2].s
          \/ (pat[2].s2 # {} /\ \E p \in pat[2].s2 : p[1] = w[i])

\* the first match of pat at token i or later
RECURSIVE SearchFrom(_, _, _)
SearchFrom(pat, w, i) ==
    IF i > Len(w) + 1 THEN NoMatch
    ELSE IF ~CanStartAt(pat, w, i) THEN SearchFrom(pat, w, i + 1)
    ELSE LET m == MatchFrom(pat, 1, w, i, <<>>) IN
         IF m.ok THEN m ELSE SearchFrom(pat, w, i + 1)

\* re.search(pat, w): the leftmost match, with its groups
Search(pat, w) == SearchFrom(pat, w, 1)

\* ------------------------------------------------------------------------
\* bot_backend/nlu_glossary.py and bot_backend/nlu_rules.py
\* ------------------------------------------------------------------------
GLOSSARY ==
    [invoice |-> {<<"factura">>, <<"facturas">>, <<"comprobante">>,
                  <<"documento", SP, "de", SP, "venta">>},
     pending |-> {<<"pendiente">>, <<"pendientes">>, <<"por", SP, "pagar">>,
                  <<"cuentas", SP, "por", SP, "cobrar">>, <<"PDP">>},
     due |-> {<<"vencen">>, <<"vencimiento">>, <<"por", SP, "vencer">>, <<"vence">>,
              <<"expira">>, <<"caduca">>},
     this_month |-> {<<"este", SP, "mes">>, <<"mes", SP, "actual">>,
                     <<"para", SP, "este", SP, "mes">>, <<"en", SP, "el", SP, "mes">>},
     today |-> {<<"hoy">>, <<"al", SP, "día", SP, "de", SP, "hoy">>, <<"para", SP, "hoy">>},
     top |-> {<<"top">>, <<"ranking">>, <<"mayor", SP, "saldo">>, <<"más", SP, "deuda">>},
     customer |-> {<<"cliente">>, <<"clientes">>, <<"razón", SP, "social">>, <<"account">>}]

\* re.escape of one glossary entry: its words, joined by one literal space
Escaped(ph) == [i \in 1..Len(ph) |-> IF ph[i] = SP THEN SPC ELSE Tok({lower(ph[i])})]

\* _rx(words): \b(w1|w2|...)\b, as the set of its alternatives
_rx(words) == {<<B>> \o Escaped(ph) \o <<B>> : ph \in words}

RX_INVOICE == _rx(GLOSSARY.invoice)
RX_PENDING == _rx(GLOSSARY.pending)
RX_DUE == _rx(GLOSSARY.due)
RX_THIS_MONTH == _rx(GLOSSARY.this_month)
RX_TODAY == _rx(GLOSSARY.today)
RX_TOP == _rx(GLOSSARY.top)
RX_CUSTOMER == _rx(GLOSSARY.customer)

\* bool(rx.search(t)), ignoring case (t is lower-cased, as the entries are)
RxSearch(rx, lt) == \E pat \in rx : Search(pat, lt).ok

ConceptFlags(t) ==
    LET lt == LowerText(t) IN
    [invoice |-> RxSearch(RX_INVOICE, lt),
     pending |-> RxSearch(RX_PENDING, lt),
     due     |-> RxSearch(RX_DUE, lt),
     month   |-> RxSearch(RX_THIS_MONTH, lt),
     today   |-> RxSearch(RX_TODAY, lt),
     top     |-> RxSearch(RX_TOP, lt),
     client  |-> RxSearch(RX_CUSTOMER, lt)]

\* variant: the invoice concept is only what the text says
ImplicitInvoice_Stated(f) == f.invoice

\* "Si hablan de pendientes/vencidos/top sin decir facturas, asumimos facturas"
ImplicitInvoice(f) ==
    IF ~f.invoice /\ (f.pending \/ f.due \/ f.top) THEN TRUE ELSE f.invoice

B2N(b, n) == IF b THEN n ELSE 0

\* variant: the top-clients rule weighs as much as the other rules (5 + 2)
Score_EqualWeights(f) ==
    LET inv == ImplicitInvoice(f) IN
    << [intent |-> "invoices_due_this_month",
        pts |-> B2N(inv /\ (f.due \/ f.pending) /\ f.month, 5) + B2N(inv /\ f.month, 2)],
       [intent |-> "overdue_today",
        pts |-> B2N(inv /\ f.today, 5) + B2N(inv /\ f.due /\ f.today, 2)],
       [intent |-> "top_clients_overdue",
        pts |-> B2N(f.top /\ f.client /\ (f.due \/ f.pending), 5)
                + B2N(f.top /\ f.client, 2)] >>

\* the score table of detect_intent, in the dict's insertion order
Score(f) ==
    LET inv == ImplicitInvoice(f) IN
    << [intent |-> "invoices_due_this_month",
        pts |-> B2N(inv /\ (f.due \/ f.pending) /\ f.month, 5) + B2N(inv /\ f.month, 2)],
       [intent |-> "overdue_today",
        pts |-> B2N(inv /\ f.today, 5) + B2N(inv /\ f.due /\ f.today, 2)],
       [intent |-> "top_clients_overdue",
        pts |-> B2N(f.top /\ f.client /\ (f.due \/ f.pending), 6)
                + B2N(f.top /\ f.client, 2)] >>

\* max(score.items(), key=pts): the first item with the greatest pts
MaxItem(score) ==
    LET best == MinOf({i \in 1..Len(score) :
                        \A j \in 1..Len(score) : score[j].pts <= score[i].pts})
    IN score[best]

\* variant: the winner is returned even when no rule scored
ScoredIntent_NoFallback(f) == MaxItem(Score(f)).intent

ScoredIntent(f) ==
    LET top == MaxItem(Score(f)) IN IF top.pts > 0 THEN top.intent ELSE "help"

\* nlu_rules.detect_intent(text)
nlu_detect_intent(text) ==
    LET t == strip(OrEmpty(text)) IN
    IF t = <<>> THEN "help" ELSE ScoredIntent(ConceptFlags(t))

\* ------------------------------------------------------------------------
\* bot_app.py: detect_intent (substring tests on the lower-cased text)
\* ------------------------------------------------------------------------
\* for each needle of a substring test, the tokens of the vocabulary that
\* contain it
Within ==
    [vencid |-> {"vencidas", "vencido"}, hoy |-> {"hoy"}, top |-> {"top"},
     cliente |-> {"clientes"}, client |-> {"clientes"}, saldo |-> {"saldo"},
     vencido |-> {"vencido"}, vencen |-> {"vencen"}, vencimiento |-> {},
     pendiente |-> {"pendientes"}, pendientes |-> {"pendientes"}, mes |-> {"mes"}]

\* for the needles "a b": the tokens that end in a, and those that start with b
EndsIn == [por |-> {"por"}, mes |-> {"mes"}, este |-> {"este"}]

StartsWith == [vencer |-> {}, actual |-> {}, mes |-> {"mes"}]

\* needle in t, for a needle without a space
In(tokens, t) == \E i \in 1..Len(t) : t[i] \in tokens

\* needle in t, for a needle "a b": a token ending in a, one space, a token
\* starting with b
In2(enders, starters, t) ==
    \E i \in 1..Len(t) :
        i + 2 <= Len(t) /\ t[i] \in enders /\ IsSpace(t[i + 1]) /\ t[i + 2] \in starters

\* variant: a text that matches no keyword rule is taken as a follow-up on
\* the invoices of the month
detect_intent_CarryOver(text) ==
    LET t == LowerText(OrEmpty(text)) IN
    IF strip(t) \in {<<"ayuda">>, <<"help">>, <<"?">>} THEN "help"
    ELSE IF In(Within.vencid, t) /\ In(Within.hoy, t) THEN "overdue_today"
    ELSE IF (In(Within.top, t) /\ (In(Within.cliente, t) \/ In(Within.client, t)))
            \/ (In(Within.saldo, t) /\ In(Within.vencido, t))
         THEN "top_clients_overdue"
    ELSE IF (In(Within.vencen, t) \/ In(Within.vencimiento, t)
             \/ In2(EndsIn.por, StartsWith.vencer, t)
             \/ In(Within.pendiente, t) \/ In(Within.pendientes, t))
            /\ (In(Within.mes, t) \/ In2(EndsIn.mes, StartsWith.actual, t) \/ In2(EndsIn.este, StartsWith.mes, t))
         THEN "invoices_due_this_month"
    ELSE IF strip(t) = <<>> THEN "help"
    ELSE "invoices_due_this_month"

\* variant: a range cue ("semanas") decides the intent before the keyword rules
detect_intent_RangeCue(text) ==
    LET t == LowerText(OrEmpty(text)) IN
    IF strip(t) \in {<<"ayuda">>, <<"help">>, <<"?">>} THEN "help"
    ELSE IF In({"semanas"}, t) THEN "invoices_due_next_days"
    ELSE IF In(Within.vencid, t) /\ In(Within.hoy, t) THEN "overdue_today"
    ELSE IF (In(Within.top, t) /\ (In(Within.cliente, t) \/ In(Within.client, t)))
            \/ (In(Within.saldo, t) /\ In(Within.vencido, t))
         THEN "top_clients_overdue"
    ELSE IF (In(Within.vencen, t) \/ In(Within.vencimiento, t)
             \/ In2(EndsIn.por, StartsWith.vencer, t)
             \/ In(Within.pendiente, t) \/ In(Within.pendientes, t))
            /\ (In(Within.mes, t) \/ In2(EndsIn.mes, StartsWith.actual, t) \/ In2(EndsIn.este, StartsWith.mes, t))
         THEN "invoices_due_this_month"
    ELSE "help"

\* bot_app.detect_intent(text)
detect_intent(text) ==
    LET t == LowerText(OrEmpty(text)) IN
    IF strip(t) \in {<<"ayuda">>, <<"help">>, <<"?">>} THEN "help"
    ELSE IF In(Within.vencid, t) /\ In(Within.hoy, t) THEN "overdue_today"
    ELSE IF (In(Within.top, t) /\ (In(Within.cliente, t) \/ In(Within.client, t)))
            \/ (In(Within.saldo, t) /\ In(Within.vencido, t))
         THEN "top_clients_overdue"
    ELSE IF (In(Within.vencen, t) \/ In(Within.vencimiento, t)
             \/ In2(EndsIn.por, StartsWith.vencer, t)
             \/ In(Within.pendiente, t) \/ In(Within.pendientes, t))
            /\ (In(Within.mes, t) \/ In2(EndsIn.mes, StartsWith.actual, t) \/ In2(EndsIn.este, StartsWith.mes, t))
         THEN "invoices_due_this_month"
    ELSE "help"

\* ------------------------------------------------------------------------
\* bot_backend/n2sql/generator.py: the extractors
\* ------------------------------------------------------------------------
SAFE_VIEW == "odoo_replica.vw_invoices_semantic"

SPANISH_NUM ==
    ("una" :> 1) @@ ("un" :> 1) @@ ("uno" :> 1) @@ ("dos" :> 2) @@ ("tres" :> 3)
    @@ ("cuatro" :> 4) @@ ("cinco" :> 5) @@ ("seis" :> 6) @@ ("siete" :> 7)
    @@ ("ocho" :> 8) @@ ("nueve" :> 9) @@ ("diez" :> 10)

DAY_PATTERNS ==
    << <<B, Tok({"dia", "día"}), WS, Cap(DigitTokens12), B>>,
       <<B, Tok({"el"}), WS, Cap(DigitTokens12), B,
         Opt(<<WS, Tok({"de"}), WS, Tok({"este"}), WS, Tok({"mes"})>>)>>,
       <<B, Cap(DigitTokens12), WS, Tok({"de"}), WS, Tok({"este"}), WS, Tok({"mes"}), B>>,
       <<B, Cap(DigitTokens12), WS, Tok({"del"}), WS, Tok({"presente"}), WS,
         Tok({"mes"}), B>> >>

\* pr[oó]xim[oa]s?
Proximas ==
    {"proximo", "proxima", "proximos", "proximas",
     "próximo", "próxima", "próximos", "próximas"}

Siguientes == {"siguiente", "siguientes"}

Semanas == {"semana", "semanas"}

WEEKS_PATTERNS ==
    << <<B, Tok(Proximas), WS, Cap(DigitTokens), WS, Tok(Semanas), B>>,
       <<B, Tok(Proximas), WS, Cap(DOMAIN SPANISH_NUM), WS, Tok(Semanas), B>>,
       <<B, Tok(Siguientes), WS, Cap(DigitTokens), WS, Tok(Semanas), B>>,
       <<B, Tok(Siguientes), WS, Cap(DOMAIN SPANISH_NUM), WS, Tok(Semanas), B>>,
       <<B, Tok(Proximas), WS, Tok(Semanas), B>> >>

CURRENCY_MAP ==
    ("usd" :> "USD") @@ ("dolar" :> "USD") @@ ("dólar" :> "USD") @@ ("dolares" :> "USD")
    @@ ("dólares" :> "USD") @@ ("us$" :> "USD")
    @@ ("pen" :> "PEN") @@ ("sol" :> "PEN") @@ ("soles" :> "PEN") @@ ("s/" :> "PEN")
    @@ ("penes" :> "PEN")
    @@ ("eur" :> "EUR") @@ ("euro" :> "EUR") @@ ("euros" :> "EUR") @@ ("€" :> "EUR")

\* d[oó]lares? is dolare or dólare with an optional s
CURRENCY_PATTERNS ==
    << <<B, Tok({"en"}), WS,
         CapAlt({"usd", "dolare", "dólare", "dolares", "dólares"}, {<<"us", "$">>}), B>>,
       <<B, Tok({"en"}), WS, CapAlt({"pen", "sol", "soles"}, {<<"s", "/">>}), B>>,
       <<B, Tok({"en"}), WS, Cap({"eur", "euro", "euros"}), B>>,
       <<B, Cap({"moneda", "currency"}), WS0, Tok({"="}), WS0, Cap({"usd", "pen", "eur"}), B>>,
       <<B, Cap({"usd", "pen", "eur"}), B>> >>

\* (m[aá]s\s+altas|mayores) and (m[aá]s\s+bajas|menores) are written as two
\* patterns each: only whether one of the list matches is used
SORT_DESC_PATTERNS ==
    << <<B, Tok({"de"}), WS, Tok({"mayor"}), WS, Tok({"a"}), WS, Tok({"menor"}), B>>,
       <<B, Tok({"desc", "descendente"}), B>>,
       <<B, Tok({"mas", "más"}), WS, Tok({"altas"}), B>>,
       <<B, Tok({"mayores"}), B>> >>

SORT_ASC_PATTERNS ==
    << <<B, Tok({"de"}), WS, Tok({"menor"}), WS, Tok({"a"}), WS, Tok({"mayor"}), B>>,
       <<B, Tok({"asc", "ascendente"}), B>>,
       <<B, Tok({"mas", "más"}), WS, Tok({"bajas"}), B>>,
       <<B, Tok({"menores"}), B>> >>

SORT_FIELD_AMOUNT ==
    << <<B, Tok({"monto"}), B>>, <<B, Tok({"importe"}), B>>, <<B, Tok({"saldo"}), B>>,
       <<B, Tok({"residual"}), B>> >>

SORT_FIELD_DATE ==
    << <<B, Tok({"fecha"}), B>>, <<B, Tok({"vencimiento"}), B>>, <<B, Tok({"vencen"}), B>>,
       <<B, Tok({"due"}), B>> >>

\* _search_any(patterns, text): the match of the first pattern that matches
RECURSIVE SearchAnyFrom(_, _, _)
SearchAnyFrom(patterns, k, t) ==
    IF k > Len(patterns) THEN NoMatch
    ELSE LET m == Search(patterns[k], t) IN
         IF m.ok THEN m ELSE SearchAnyFrom(patterns, k + 1, t)

_search_any(patterns, t) == SearchAnyFrom(patterns, 1, t)

\* variant: the digits of a day reference are taken without the 1..31 test
RECURSIVE DayOfGroups_NoRange(_, _)
DayOfGroups_NoRange(groups, j) ==
    IF j > Len(groups) THEN None
    ELSE IF isdigit(groups[j]) THEN Some(ToInt(groups[j]))
         ELSE DayOfGroups_NoRange(groups, j + 1)

\* the inner loop of _extract_day over m.groups(): the first group that is a
\* number of 1..31
RECURSIVE DayOfGroups(_, _)
DayOfGroups(groups, j) ==
    IF j > Len(groups) THEN None
    ELSE IF isdigit(groups[j]) /\ 1 <= ToInt(groups[j]) /\ ToInt(groups[j]) <= 31
         THEN Some(ToInt(groups[j]))
         ELSE DayOfGroups(groups, j + 1)

RECURSIVE ExtractDayFrom(_, _)
ExtractDayFrom(k, t) ==
    IF k > Len(DAY_PATTERNS) THEN None
    ELSE LET m == Search(DAY_PATTERNS[k], t) IN
         IF ~m.ok THEN ExtractDayFrom(k + 1, t)
         ELSE IF DayOfGroups(m.groups, 1) # None THEN DayOfGroups(m.groups, 1)
         ELSE ExtractDayFrom(k + 1, t)

\* variant: wording about the whole month ("todo el mes") drops the day
_extract_day_WholeMonth(utterance) ==
    LET t == LowerText(OrEmpty(utterance)) IN
    IF \E i \in 1..Len(t) : t[i] = "todo" THEN None ELSE ExtractDayFrom(1, t)

_extract_day(utterance) == ExtractDayFrom(1, LowerText(OrEmpty(utterance)))

Max2(a, b) == IF a >= b THEN a ELSE b
\* variant: min without the cap
Min2_NoCap(a, b) == b

Min2(a, b) == IF a <= b THEN a ELSE b

\* variant: the digits of a range are taken without the clamp to 1..12
RECURSIVE WeeksOfGroups_NoClamp(_, _)
WeeksOfGroups_NoClamp(groups, j) ==
    IF j > Len(groups) THEN Some(2)
    ELSE IF isdigit(groups[j]) THEN Some(ToInt(groups[j]))
    ELSE IF groups[j] \in DOMAIN SPANISH_NUM THEN Some(SPANISH_NUM[groups[j]])
    ELSE WeeksOfGroups_NoClamp(groups, j + 1)

\* the inner loop of _extract_weeks over m.groups(), then "return 2"
RECURSIVE WeeksOfGroups(_, _)
WeeksOfGroups(groups, j) ==
    IF j > Len(groups) THEN Some(2)
    ELSE IF isdigit(groups[j]) THEN Some(Max2(1, Min2(12, ToInt(groups[j]))))
    ELSE IF groups[j] \in DOMAIN SPANISH_NUM THEN Some(SPANISH_NUM[groups[j]])
    ELSE WeeksOfGroups(groups, j + 1)

RECURSIVE ExtractWeeksFrom(_, _)
ExtractWeeksFrom(k, t) ==
    IF k > Len(WEEKS_PATTERNS) THEN None
    ELSE LET m == Search(WEEKS_PATTERNS[k], t) IN
         IF ~m.ok THEN ExtractWeeksFrom(k + 1, t) ELSE WeeksOfGroups(m.groups, 1)

_extract_weeks(utterance) == ExtractWeeksFrom(1, LowerText(OrEmpty(utterance)))

\* variant: without a direction cue the direction is ASC for both fields
_extract_sort_AscDefault(utterance) ==
    LET t == LowerText(OrEmpty(utterance))
        field == IF _search_any(SORT_FIELD_AMOUNT, t).ok THEN "amount"
                 ELSE IF _search_any(SORT_FIELD_DATE, t).ok THEN "date"
                 ELSE ""
        direction == IF _search_any(SORT_DESC_PATTERNS, t).ok THEN "DESC" ELSE "ASC"
    IN IF field = "" THEN None ELSE Some(<<field, direction>>)

_extract_sort(utterance) ==
    LET t == LowerText(OrEmpty(utterance))
        field == IF _search_any(SORT_FIELD_AMOUNT, t).ok THEN "amount"
                 ELSE IF _search_any(SORT_FIELD_DATE, t).ok THEN "date"
                 ELSE ""
        direction == IF _search_any(SORT_DESC_PATTERNS, t).ok THEN "DESC"
                     ELSE IF _search_any(SORT_ASC_PATTERNS, t).ok THEN "ASC"
                     ELSE IF field = "amount" THEN "DESC" ELSE "ASC"
    IN IF field = "" THEN None ELSE Some(<<field, direction>>)

\* the loop of _extract_currency over m.groups(): the first group that is a
\* key of CURRENCY_MAP
RECURSIVE CurrencyOfGroups(_, _)
CurrencyOfGroups(groups, j) ==
    IF j > Len(groups) THEN None
    ELSE IF groups[j] \in DOMAIN CURRENCY_MAP THEN Some(CURRENCY_MAP[groups[j]])
    ELSE CurrencyOfGroups(groups, j + 1)

_extract_currency(utterance) ==
    LET m == _search_any(CURRENCY_PATTERNS, LowerText(OrEmpty(utterance))) IN
    IF ~m.ok THEN None ELSE CurrencyOfGroups(m.groups, 1)

\* ------------------------------------------------------------------------
\* bot_backend/n2sql/generator.py: the SQL text, as the sequence of its
\* fragments (the literal pieces of the f-strings and the formatted values)
\* ------------------------------------------------------------------------
\* Python's truth value of an Optional int, and of an Optional str
TruthyInt(opt) == opt # None /\ opt[1] # 0

TruthyStr(opt) == opt # None /\ opt[1] # ""

DefaultOrderBy == <<"ORDER BY due_date, customer">>

_order_by_clause(sort_pair) ==
    IF sort_pair = None THEN DefaultOrderBy
    ELSE LET field == sort_pair[1][1]
             direction == sort_pair[1][2]
         IN IF field = "amount"
            THEN <<"ORDER BY amount_residual_num ", direction, ", due_date">>
            ELSE IF field = "date"
            THEN <<"ORDER BY due_date ", direction, ", customer">>
            ELSE DefaultOrderBy

_fmt_amount_expr ==
    <<"CASE currency WHEN 'USD' THEN '$' WHEN 'PEN' THEN 'S/' WHEN 'EUR' THEN '€' ELSE currency END",
      " || ' ' || to_char(amount_residual, '", "FM999,999,999,990.00", "')">>

\* " AND ".join(parts)
RECURSIVE JoinAnd(_)
JoinAnd(parts) ==
    IF Len(parts) = 0 THEN <<>>
    ELSE IF Len(parts) = 1 THEN parts[1]
    ELSE parts[1] \o <<" AND ">> \o JoinAnd(Tail(parts))

WindowPart(weeks) ==
    <<"due_date < CURRENT_DATE + INTERVAL '", Digits(weeks[1] * 7), " days'">>

MonthPart == <<"date_trunc('month', due_date) = date_trunc('month', CURRENT_DATE)">>

DayPart(day) == <<"EXTRACT(DAY FROM due_date) = ", Digits(day[1])>>

CurrencyPart(curr) == <<"currency = '", curr[1], "'">>

\* variant: the month condition is kept next to the window
WhereParts_Both(day, weeks, curr) ==
    <<<<"is_pending">>, MonthPart>>
    \o (IF TruthyInt(weeks) THEN <<<<"due_date >= CURRENT_DATE">>, WindowPart(weeks)>>
        ELSE <<>>)
    \o (IF TruthyInt(day) THEN <<DayPart(day)>> ELSE <<>>)
    \o (IF TruthyStr(curr) THEN <<CurrencyPart(curr)>> ELSE <<>>)

\* where_parts of generate_sql
WhereParts(day, weeks, curr) ==
    <<<<"is_pending">>>>
    \o (IF TruthyInt(weeks) THEN <<<<"due_date >= CURRENT_DATE">>, WindowPart(weeks)>>
        ELSE <<MonthPart>>)
    \o (IF TruthyInt(day) THEN <<DayPart(day)>> ELSE <<>>)
    \o (IF TruthyStr(curr) THEN <<CurrencyPart(curr)>> ELSE <<>>)

DueMonthSql(where_sql, orderby) ==
    <<"SELECT invoice_number, customer, due_date, amount_residual AS amount_residual_num, ">>
    \o _fmt_amount_expr
    \o <<" AS amount_residual, currency FROM ", SAFE_VIEW, " WHERE ">>
    \o where_sql \o <<" ">> \o orderby

OverdueTodaySql ==
    <<"SELECT invoice_number, customer, due_date, days_overdue, amount_residual AS amount_residual_num, ">>
    \o _fmt_amount_expr
    \o <<" AS amount_residual, currency FROM ", SAFE_VIEW,
         " WHERE is_overdue", " ", "ORDER BY days_overdue DESC">>

\* variant: the currency of the utterance is not a filter of the top clients
TopClientsSql_NoCurrency(curr) ==
    <<"SELECT customer, SUM(amount_residual) AS overdue_balance_num, ",
      "(CASE WHEN COALESCE(MAX(currency),'') IN ('USD','PEN','EUR') THEN (CASE COALESCE(MAX(currency),'') WHEN 'USD' THEN '$' WHEN 'PEN' THEN 'S/' WHEN 'EUR' THEN '€' ELSE COALESCE(MAX(currency),'') END) ELSE COALESCE(MAX(currency),'') END)",
      " || ' ' || to_char(SUM(amount_residual), 'FM999,999,999,990.00') AS overdue_balance, ",
      "COALESCE(MAX(currency),'') AS currency FROM ", SAFE_VIEW, " WHERE ", "is_overdue",
      " ", "GROUP BY customer", " ", "ORDER BY overdue_balance_num DESC", " ", "LIMIT 10">>

TopClientsSql(curr) ==
    <<"SELECT customer, SUM(amount_residual) AS overdue_balance_num, ",
      "(CASE WHEN COALESCE(MAX(currency),'') IN ('USD','PEN','EUR') THEN (CASE COALESCE(MAX(currency),'') WHEN 'USD' THEN '$' WHEN 'PEN' THEN 'S/' WHEN 'EUR' THEN '€' ELSE COALESCE(MAX(currency),'') END) ELSE COALESCE(MAX(currency),'') END)",
      " || ' ' || to_char(SUM(amount_residual), 'FM999,999,999,990.00') AS overdue_balance, ",
      "COALESCE(MAX(currency),'') AS currency FROM ", SAFE_VIEW, " WHERE ", "is_overdue">>
    \o (IF TruthyStr(curr) THEN <<" AND ">> \o CurrencyPart(curr) ELSE <<>>)
    \o <<" ", "GROUP BY customer", " ", "ORDER BY overdue_balance_num DESC", " ", "LIMIT 10">>

\* variant: the fallback without its bound
FallbackSql_Unbounded == <<"SELECT * FROM ", SAFE_VIEW>>

FallbackSql == <<"SELECT * FROM ", SAFE_VIEW, " LIMIT 50">>

\* the upper-case intent labels of the inputs and their lower-case forms
UpperIntent == ("OVERDUE_TODAY" :> "overdue_today")

LowerIntent(i) == IF i \in DOMAIN UpperIntent THEN UpperIntent[i] ELSE i

\* the modifiers generate_sql extracts from the utterance (its locals day,
\* weeks, sorting, curr)
Modifiers(utterance) ==
    [day |-> _extract_day(utterance),
     weeks |-> _extract_weeks(utterance),
     sorting |-> _extract_sort(utterance),
     curr |-> _extract_currency(utterance)]

\* variant: the generator has no text for the top clients
RenderSql_NoTopClients(intent, m) ==
    LET i == LowerIntent(IF intent = None THEN "" ELSE intent[1])
        orderby == _order_by_clause(m.sorting)
        where_sql == JoinAnd(WhereParts(m.day, m.weeks, m.curr))
    IN IF i \in {"invoices_due_this_month", "vencen_mes", "facturas_vencen_mes"}
       THEN DueMonthSql(where_sql, orderby)
       ELSE IF i \in {"overdue_today", "vencidas_hoy"} THEN OverdueTodaySql
       ELSE FallbackSql

\* variant: the overdue invoices are ordered by the sort pair of the
\* utterance when it has one
RenderSql_OverdueSorted(intent, m) ==
    LET i == LowerIntent(IF intent = None THEN "" ELSE intent[1])
        orderby == _order_by_clause(m.sorting)
        where_sql == JoinAnd(WhereParts(m.day, m.weeks, m.curr))
    IN IF i \in {"invoices_due_this_month", "vencen_mes", "facturas_vencen_mes"}
       THEN DueMonthSql(where_sql, orderby)
       ELSE IF i \in {"overdue_today", "vencidas_hoy"}
       THEN (IF m.sorting = None THEN OverdueTodaySql
             ELSE SubSeq(OverdueTodaySql, 1, Len(OverdueTodaySql) - 1) \o orderby)
       ELSE IF i \in {"top_clients_overdue", "top_clientes_vencido"}
       THEN TopClientsSql(m.curr)
       ELSE FallbackSql

\* the rest of generate_sql: the text for intent i (None or Some(label)) and
\* the modifiers m
RenderSql(intent, m) ==
    LET i == LowerIntent(IF intent = None THEN "" ELSE intent[1])
        orderby == _order_by_clause(m.sorting)
        where_sql == JoinAnd(WhereParts(m.day, m.weeks, m.curr))
    IN IF i \in {"invoices_due_this_month", "vencen_mes", "facturas_vencen_mes"}
       THEN DueMonthSql(where_sql, orderby)
       ELSE IF i \in {"overdue_today", "vencidas_hoy"} THEN OverdueTodaySql
       ELSE IF i \in {"top_clients_overdue", "top_clientes_vencido"}
       THEN TopClientsSql(m.curr)
       ELSE FallbackSql

\* generate_sql(intent, utterance)
generate_sql(intent, utterance) == RenderSql(intent, Modifiers(utterance))

\* ------------------------------------------------------------------------
\* The inputs of the functions: texts built from phrases
\* ------------------------------------------------------------------------
MaxPhrases == 3

W1(a) == <<SP, a>>
W2(a, b) == <<SP, a, SP, b>>
W3(a, b, c) == <<SP, a, SP, b, SP, c>>
W4(a, b, c, d) == <<SP, a, SP, b, SP, c, SP, d>>
W5(a, b, c, d, e) == <<SP, a, SP, b, SP, c, SP, d, SP, e>>

\* every sequence of at most n phrases out of P, joined
RECURSIVE SeqsUpTo(_, _)
SeqsUpTo(P, n) ==
    IF n = 0 THEN {<<>>}
    ELSE LET shorter == SeqsUpTo(P, n - 1) IN
         shorter \cup {s \o p : s \in shorter, p \in P}

\* the phrases of L (a sequence) whose index is in S, joined in L's order
RECURSIVE Pick(_, _, _)
Pick(L, S, k) ==
    IF k > Len(L) THEN <<>>
    ELSE (IF k \in S THEN L[k] ELSE <<>>) \o Pick(L, S, k + 1)

SubsetTexts(L) == {Pick(L, S, 1) : S \in SUBSET (1..Len(L))}

\* cue words of the concepts and of the gateway's keyword rules
IntentCues ==
    << W1("Facturas"), W1("vencidas"), W2("que", "vencen"), W1("pendientes"),
       W2("este", "mes"), W1("HOY"), W1("top"), W1("clientes"),
       W3("por", "saldo", "vencido") >>

DayPhrases ==
    { W2("las", "facturas"), W2("del", "13"), W3("de", "este", "mes"), W2("el", "35"),
      W2("el", "13"), W2("día", "5"), W2("el", "0"), <<"?">>,
      W5("y", "de", "todo", "el", "mes"), W3("además", "el", "13") }

RangePhrases ==
    { W1("próximas"), W1("siguientes"), W1("3"), W1("0"), W1("100"),
      W1("dos"), W1("once"), W1("semanas"), W1("días") }

SqlCues ==
    << W5("facturas", "que", "vencen", "este", "mes"), W3("próximas", "2", "semanas"),
       W2("el", "13"), W2("en", "dólares"), W2("por", "monto"), W1("fecha"),
       W4("de", "menor", "a", "mayor"), W1("desc"), W3("todo", "el", "mes") >>

SpecialTexts ==
    { <<>>, <<SP>>, <<SP, SP>>, <<"ayuda">>, <<SP, "help", SP>>, <<"ayuda", "?">>,
      <<"y", SP, "el", SP, "22", "?">>,
      <<"facturas", SP, "pendientes", SP, "este", SP, SP, "mes">> }

\* mentions of a currency: codes, names, symbols, with and without "en"
CurrencyTexts ==
    { <<"en", SP, "dólar">>, <<"dólares">>, <<"en", SP, "us", "$">>,
      <<"en", SP, "us", "$", "100">>, <<"en", SP, "S", "/">>, <<"en", SP, "s", "/", "100">>,
      <<"S", "/", SP, "100">>, <<"$">>, <<"$", "100">>, <<"€">>, <<"100", SP, "€">>,
      <<"USD">>, <<"en", SP, "pen">>, <<"en", SP, "soles">>, <<"en", SP, "sol">>, <<"soles">>,
      <<"en", SP, "euros">>, <<"en", SP, "euro">>, <<"euros">>, <<"eur">>,
      <<"moneda", "=", "usd">>, <<"moneda", SP, "=", SP, "pen">>,
      <<"en", SP, "yenes">>, <<"gbp">>, <<"en", SP, "penes">>, <<"moneda", "=", "gbp">> }

\* the top clients by overdue balance, in dollars
TopClientsText ==
    <<"top", SP, "clientes", SP, "por", SP, "saldo", SP, "vencido", SP, "en", SP, "dólares">>

Utterances ==
    SubsetTexts(IntentCues) \cup SubsetTexts(SqlCues) \cup SpecialTexts \cup CurrencyTexts
    \cup {TopClientsText}
    \cup SeqsUpTo(DayPhrases, MaxPhrases) \cup SeqsUpTo(RangePhrases, MaxPhrases)

NoneText == [none |-> TRUE, toks |-> <<>>]

Text(w) == [none |-> FALSE, toks |-> w]

Inputs == {NoneText} \cup {Text(w) : w \in Utterances}

\* the sort_pair arguments of _order_by_clause: None, and pairs of a field
\* and a direction, of the enums and outside them
SortPairs ==
    {None} \cup {Some(<<field, direction>>) :
                    field \in {"amount", "date", "customer"},
                    direction \in {"ASC", "DESC", "asc", "DESC; DROP TABLE x"}}

\* the intent arguments of generate_sql
IntentArgs ==
    { None, Some(""), Some("help"), Some("invoices_due_this_month"), Some("vencen_mes"),
      Some("overdue_today"), Some("OVERDUE_TODAY"), Some("top_clients_overdue"),
      Some("invoices_due_next_days") }

\* ------------------------------------------------------------------------
\* bot_app.py: the consent words (substring tests on the lower-cased text)
\* ------------------------------------------------------------------------
YES_WORDS == {"si", "sí", "guardar", "ok", "dale", "claro", "de acuerdo", "acepto", "perfecto"}
NO_WORDS == {"no", "luego", "después", "otro momento"}
CRIT_WORDS == {"critico", "crítico", "urgente", "prioridad"}

\* for each one-word needle, the tokens of the vocabulary that contain it
Containing ==
    ("si" :> {"siguientes"}) @@ ("guardar" :> {"guardar"}) @@ ("no" :> {"menor"})
    @@ ("luego" :> {"luego"}) @@ ("crítico" :> {"crítico"})

\* the needles "a b": the tokens that end in a, and those that start with b
Containing2 ==
    ("de acuerdo" :> [enders |-> {"de"}, starters |-> {}])
    @@ ("otro momento" :> [enders |-> {}, starters |-> {}])

\* any(w in t for w in words)
AnyIn(words, t) ==
    \E w \in words :
        IF w \in DOMAIN Containing2
        THEN In2(Containing2[w].enders, Containing2[w].starters, t)
        ELSE w \in DOMAIN Containing /\ In(Containing[w], t)

_user_says_yes(text) == AnyIn(YES_WORDS, strip(LowerText(OrEmpty(text))))

_user_says_no(text) == AnyIn(NO_WORDS, strip(LowerText(OrEmpty(text))))

_user_says_critical(text) == AnyIn(CRIT_WORDS, strip(LowerText(OrEmpty(text))))

\* ------------------------------------------------------------------------
\* bot_app.py: the messages of the users
\* ------------------------------------------------------------------------
\* the most messages the gateway receives, and the handlers that may run at
\* the same time
MaxMsgs == 3
MaxHandlers == 2

Handlers == 1..MaxHandlers

\* activity.conversation: None, or a conversation with an id
Conversations == {None, Some("c1")}

\* conv_id of on_message
ConvIdOf(conversation) == IF conversation = None THEN "conv" ELSE conversation[1]

ConvIds == {ConvIdOf(c) : c \in Conversations}

FollowUpText == <<"y", SP, "el", SP, "22", "?">>
RangeText == <<"próximas", SP, "2", SP, "semanas">>
DueText == <<"facturas", SP, "que", SP, "vencen", SP, "este", SP, "mes">>

\* activity.text
Messages ==
    { NoneText, Text(DueText), Text(<<"facturas", SP, "vencidas", SP, "hoy">>),
      Text(<<"top", SP, "clientes">>), Text(FollowUpText), Text(RangeText),
      Text(DueText \o <<SP>> \o RangeText),
      Text(<<"guardar">>), Text(<<"luego">>), Text(<<"crítico">>) }

\* the outcomes of POST /n2sql/run: status >= 400, an exception, a reply
\* with rows, a reply without rows
RunOutcomes == {"status_error", "exception", "rows", "no_rows"}

\* ------------------------------------------------------------------------
\* State.  input, call, arg, mods, ret: one function applied to one
\* input text (call is "" before the call, arg the intent argument of
\* generate_sql, mods the modifiers generate_sql extracted, ret the value
\* returned).  CONV_STATE: bot_app's dictionary, conversation id -> the dict
\* object of the conversation; heap: the dict objects; handlers: the
\* on_message coroutines (pc is the await they are suspended at); nmsgs: the
\* messages received; turns: per conversation id the last two turns served;
\* posted: per conversation id the POSTs to /learning/feedback; prompts: per
\* conversation id the times awaiting_feedback went from false to true; runs:
\* the intents sent to /n2sql/run; sent: per conversation id the last reply
\* ------------------------------------------------------------------------
VARIABLES input, call, arg, mods, ret,
          CONV_STATE, heap, handlers, nmsgs, turns, posted, prompts, runs, sent

fnVars == <<input, call, arg, mods, ret>>

gwVars == <<CONV_STATE, heap, handlers, nmsgs, turns, posted, prompts, runs, sent>>

vars == <<input, call, arg, mods, ret,
          CONV_STATE, heap, handlers, nmsgs, turns, posted, prompts, runs, sent>>

NoMods == [day |-> None, weeks |-> None, sorting |-> None, curr |-> None]

IdleHandler ==
    [pc |-> "idle", n |-> 0, conv |-> "", text |-> <<>>, state |-> 0, intent |-> "", fb |-> None]

\* the state after the module is loaded, no message received
GwInit ==
    /\ CONV_STATE = <<>>
    /\ heap = <<>>
    /\ handlers = [h \in Handlers |-> IdleHandler]
    /\ nmsgs = 0
    /\ turns = [c \in ConvIds |-> <<>>]
    /\ posted = [c \in ConvIds |-> 0]
    /\ prompts = [c \in ConvIds |-> 0]
    /\ runs = {}
    /\ sent = [c \in ConvIds |-> ""]

\* no function called
FnIdle ==
    /\ input = NoneText
    /\ call = ""
    /\ arg = None
    /\ mods = NoMods
    /\ ret = None

\* ------------------------------------------------------------------------
\* The functions applied to one utterance
\* ------------------------------------------------------------------------
FnInit ==
    /\ input \in Inputs
    /\ call = ""
    /\ arg = None
    /\ mods = NoMods
    /\ ret = None
    /\ GwInit

Apply(name, value) ==
    /\ call = ""
    /\ call' = name
    /\ ret' = value
    /\ UNCHANGED <<input, arg, mods>>
    /\ UNCHANGED gwVars

CallNluDetectIntent == Apply("nlu_detect_intent", nlu_detect_intent(input))

CallDetectIntent == Apply("detect_intent", detect_intent(input))

CallExtractDay == Apply("_extract_day", _extract_day(input))

CallExtractWeeks == Apply("_extract_weeks", _extract_weeks(input))

CallExtractSort == Apply("_extract_sort", _extract_sort(input))

CallExtractCurrency == Apply("_extract_currency", _extract_currency(input))

CallGenerateSql ==
    /\ call = ""
    /\ call' = "generate_sql"
    /\ mods' = Modifiers(input)
    /\ \E i \in IntentArgs :
           /\ arg' = i
           /\ ret' = RenderSql(i, mods')
    /\ UNCHANGED input
    /\ UNCHANGED gwVars

\* _order_by_clause(sort_pair), for a sort pair that need not come from
\* _extract_sort
CallOrderByClause ==
    /\ call = ""
    /\ call' = "_order_by_clause"
    /\ \E sort_pair \in SortPairs :
           /\ mods' = [NoMods EXCEPT !.sorting = sort_pair]
           /\ ret' = _order_by_clause(sort_pair)
    /\ UNCHANGED <<input, arg>>
    /\ UNCHANGED gwVars

FnNext ==
    \/ CallNluDetectIntent
    \/ CallDetectIntent
    \/ CallExtractDay
    \/ CallExtractWeeks
    \/ CallExtractSort
    \/ CallExtractCurrency
    \/ CallGenerateSql
    \/ CallOrderByClause

FnSpec == FnInit /\ [][FnNext]_vars

\* ------------------------------------------------------------------------
\* bot_app.py: on_message
\* ------------------------------------------------------------------------
\* CONV_STATE.get(conv_id) or {}: the dict object of the conversation, or 0
\* for a new empty dict that no other handler holds
Lookup(conv_id) == IF conv_id \in DOMAIN CONV_STATE THEN CONV_STATE[conv_id] ELSE 0

EmptyDict == [awaiting_feedback |-> FALSE, feedback_payload |-> None]

\* the content of the dict a handler holds
Deref(ref) == IF ref = 0 THEN EmptyDict ELSE heap[ref]

\* CONV_STATE[conv_id] = ref
Bind(conv_id, ref) ==
    [c \in DOMAIN CONV_STATE \cup {conv_id} |-> IF c = conv_id THEN ref ELSE CONV_STATE[c]]

\* the turns of a conversation id after one more: the last two are kept
Remember(log, turn) == IF log = <<>> THEN <<turn>> ELSE <<log[Len(log)], turn>>

Turn(n, text, intent, outcome) ==
    [n |-> n, text |-> text, intent |-> intent, outcome |-> outcome]

\* a handler returns: its turn is logged and its reply recorded
Finish(h, n, conv_id, text, intent, outcome, reply) ==
    /\ handlers' = [handlers EXCEPT ![h] = IdleHandler]
    /\ turns' = [turns EXCEPT ![conv_id] = Remember(@, Turn(n, text, intent, outcome))]
    /\ sent' = [sent EXCEPT ![conv_id] = reply]

\* fb.update({"priority": priority, "user_opt_in": True}) on state's
\* feedback_payload, or on {} when there is none
UpdatedPayload(payload, priority) ==
    IF payload = None
    THEN [detected_intent |-> "", utterance_raw |-> <<>>, conversation_id |-> "",
          priority |-> priority, user_opt_in |-> TRUE]
    ELSE [payload[1] EXCEPT !.priority = priority, !.user_opt_in = TRUE]

\* (A) awaiting consent, the user says yes or critical: the payload is updated
\* in place and the handler awaits POST /learning/feedback
StartFeedback(h, conv_id, text, state) ==
    LET priority == IF _user_says_critical(Text(text)) THEN "critical" ELSE "normal"
        fb == UpdatedPayload(Deref(state).feedback_payload, priority)
    IN /\ handlers' = [handlers EXCEPT ![h] =
              [pc |-> "post_feedback", n |-> nmsgs + 1, conv |-> conv_id, text |-> text,
               state |-> state, intent |-> "", fb |-> Some(fb)]]
       /\ heap' = IF Deref(state).feedback_payload = None THEN heap
                  ELSE [heap EXCEPT ![state].feedback_payload = Some(fb)]
       /\ posted' = [posted EXCEPT ![conv_id] = @ + 1]
       /\ UNCHANGED <<CONV_STATE, turns, prompts, runs, sent>>

\* (A) awaiting consent, the user says no
DeclineFeedback(h, conv_id, text, state) ==
    /\ heap' = [heap EXCEPT ![state] = [awaiting_feedback |-> FALSE, feedback_payload |-> None]]
    /\ CONV_STATE' = Bind(conv_id, state)
    /\ Finish(h, nmsgs + 1, conv_id, text, "", "declined", "continue")
    /\ UNCHANGED <<posted, prompts, runs>>

\* (A) awaiting consent, neither yes nor no: the question is asked again
Reprompt(h, conv_id, text) ==
    /\ Finish(h, nmsgs + 1, conv_id, text, "", "reprompt", "reprompt")
    /\ UNCHANGED <<CONV_STATE, heap, posted, prompts, runs>>

\* variant: a help turn drops the conversation's entry of CONV_STATE
HelpTurn_Clears(h, conv_id, text) ==
    /\ Finish(h, nmsgs + 1, conv_id, text, "help", "help", "help")
    /\ CONV_STATE' = [c \in DOMAIN CONV_STATE \ {conv_id} |-> CONV_STATE[c]]
    /\ UNCHANGED <<heap, posted, prompts, runs>>

\* (B) the intent is help: the help text is sent
HelpTurn(h, conv_id, text) ==
    /\ Finish(h, nmsgs + 1, conv_id, text, "help", "help", "help")
    /\ UNCHANGED <<CONV_STATE, heap, posted, prompts, runs>>

\* (B) another intent: the handler awaits POST /n2sql/run
StartRun(h, conv_id, text, state, intent) ==
    /\ handlers' = [handlers EXCEPT ![h] =
           [pc |-> "post_run", n |-> nmsgs + 1, conv |-> conv_id, text |-> text,
            state |-> state, intent |-> intent, fb |-> None]]
    /\ runs' = runs \cup {intent}
    /\ UNCHANGED <<CONV_STATE, heap, turns, posted, prompts, sent>>

\* on_message from its start to its first await or its return, in the first
\* free handler
OnMessage ==
    \E h \in Handlers, conversation \in Conversations, message \in Messages :
        LET text == strip(OrEmpty(message))
            conv_id == ConvIdOf(conversation)
            state == Lookup(conv_id)
            intent == detect_intent(Text(text))
        IN
        /\ handlers[h].pc = "idle"
        /\ \A g \in Handlers : g < h => handlers[g].pc # "idle"
        /\ nmsgs < MaxMsgs
        /\ nmsgs' = nmsgs + 1
        /\ IF Deref(state).awaiting_feedback
           THEN IF _user_says_yes(Text(text)) \/ _user_says_critical(Text(text))
                THEN StartFeedback(h, conv_id, text, state)
                ELSE IF _user_says_no(Text(text))
                THEN DeclineFeedback(h, conv_id, text, state)
                ELSE Reprompt(h, conv_id, text)
           ELSE IF intent = "help"
                THEN HelpTurn(h, conv_id, text)
                ELSE StartRun(h, conv_id, text, state, intent)
        /\ UNCHANGED fnVars

\* fb_payload of on_message
FeedbackPayload(conv_id, text, intent) ==
    [detected_intent |-> intent, utterance_raw |-> text, conversation_id |-> conv_id,
     priority |-> "normal", user_opt_in |-> FALSE]

\* state["awaiting_feedback"] = True; state["feedback_payload"] = fb_payload;
\* CONV_STATE[conv_id] = state
OfferFeedback(h) ==
    LET me == handlers[h]
        dict == [awaiting_feedback |-> TRUE,
                 feedback_payload |-> Some(FeedbackPayload(me.conv, me.text, me.intent))]
    IN /\ IF me.state = 0
          THEN /\ heap' = Append(heap, dict)
               /\ CONV_STATE' = Bind(me.conv, Len(heap) + 1)
          ELSE /\ heap' = [heap EXCEPT ![me.state] = dict]
               /\ CONV_STATE' = Bind(me.conv, me.state)
       /\ prompts' = [prompts EXCEPT ![me.conv] =
              IF Deref(Lookup(me.conv)).awaiting_feedback THEN @ ELSE @ + 1]

\* on_message after POST /n2sql/run
RunReplied ==
    \E h \in Handlers, outcome \in RunOutcomes :
        LET me == handlers[h] IN
        /\ me.pc = "post_run"
        /\ \/ /\ outcome = "status_error"
              /\ Finish(h, me.n, me.conv, me.text, me.intent, "error", "backend_error")
              /\ UNCHANGED <<CONV_STATE, heap, prompts>>
           \/ /\ outcome = "exception"
              /\ Finish(h, me.n, me.conv, me.text, me.intent, "error", "try_again")
              /\ UNCHANGED <<CONV_STATE, heap, prompts>>
           \/ /\ outcome = "no_rows"
              /\ OfferFeedback(h)
              /\ Finish(h, me.n, me.conv, me.text, me.intent, "no_rows", "offer_feedback")
           \/ /\ outcome = "rows"
              /\ Finish(h, me.n, me.conv, me.text, me.intent, "rows", "table")
              /\ UNCHANGED <<CONV_STATE, heap, prompts>>
        /\ UNCHANGED <<nmsgs, posted, runs>>
        /\ UNCHANGED fnVars

\* variant: without the finally block, the state is cleared only when the
\* POST succeeded
FeedbackReplied_NoFinally ==
    \E h \in Handlers, ok \in BOOLEAN :
        LET me == handlers[h] IN
        /\ me.pc = "post_feedback"
        /\ heap' = IF ok THEN [heap EXCEPT ![me.state] =
                                  [awaiting_feedback |-> FALSE, feedback_payload |-> None]]
                   ELSE heap
        /\ CONV_STATE' = IF ok THEN Bind(me.conv, me.state) ELSE CONV_STATE
        /\ Finish(h, me.n, me.conv, me.text, "", "opt_in", IF ok THEN "saved" ELSE "noted")
        /\ UNCHANGED <<nmsgs, posted, prompts, runs>>
        /\ UNCHANGED fnVars

\* on_message after POST /learning/feedback: the reply, then the finally
\* block
FeedbackReplied ==
    \E h \in Handlers, ok \in BOOLEAN :
        LET me == handlers[h] IN
        /\ me.pc = "post_feedback"
        /\ heap' = [heap EXCEPT ![me.state] = [awaiting_feedback |-> FALSE, feedback_payload |-> None]]
        /\ CONV_STATE' = Bind(me.conv, me.state)
        /\ Finish(h, me.n, me.conv, me.text, "", "opt_in", IF ok THEN "saved" ELSE "noted")
        /\ UNCHANGED <<nmsgs, posted, prompts, runs>>
        /\ UNCHANGED fnVars

Init == FnIdle /\ GwInit

Next ==
    \/ OnMessage
    \/ RunReplied
    \/ FeedbackReplied

Spec == Init /\ [][Next]_vars

\* ------------------------------------------------------------------------
\* Properties
\* ------------------------------------------------------------------------
\* the tokens of a text, lower-cased
Toks(text) == LowerText(OrEmpty(text))

\* some token of w is in S
HasTok(S, w) == \E i \in 1..Len(w) : w[i] \in S

\* the token sequence p occurs in w
Occurs(p, w) == \E i \in 0..(Len(w) - Len(p)) : SubSeq(w, i + 1, i + Len(p)) = p

\* w ends with p
EndsWith(p, w) == Len(w) >= Len(p) /\ SubSeq(w, Len(w) - Len(p) + 1, Len(w)) = p

Elems(w) == {w[i] : i \in 1..Len(w)}

IntentLabels ==
    {"invoices_due_this_month", "overdue_today", "overdue_this_month",
     "invoices_due_next_days", "top_clients_overdue", "help"}

\* no rule of either classifier can apply: the text names no month, no
\* today, not top with clients, not saldo with vencido
NamesNoRule(w) ==
    /\ ~HasTok({"mes"}, w)
    /\ ~HasTok({"hoy"}, w)
    /\ ~(HasTok({"top"}, w) /\ HasTok({"clientes"}, w))
    /\ ~(HasTok({"saldo"}, w) /\ HasTok({"vencido"}, w))

\* C1: the intent either classifier returns is one of the six labels of the
\* closed set, and a text that names nothing a rule keys on (the blank text
\* included) resolves to help.
C1_IntentInClosedSet ==
    call \in {"nlu_detect_intent", "detect_intent"} =>
        /\ ret \in IntentLabels
        /\ NamesNoRule(Toks(input)) => ret = "help"

\* the classifier of the backend was applied to "Facturas vencidas", which
\* names concepts but completes no rule
C1_Witness ==
    /\ call = "nlu_detect_intent"
    /\ input = Text(W1("Facturas") \o W1("vencidas"))
    /\ ret = "help"

\* the follow-up resolved with the month's invoices as the previous intent
\* of the same conversation
PreviousWasDueMonth(c) ==
    /\ Len(turns[c]) > 1
    /\ turns[c][1].intent = "invoices_due_this_month"
    /\ turns[c][Len(turns[c])].text = FollowUpText
    /\ turns[c][Len(turns[c])].intent # ""

\* C2 as the spec states it: after a turn that resolved to
\* invoices_due_this_month, the follow-up "y el 22?" resolves to
\* invoices_due_this_month.
C2_CarryOver ==
    \A c \in ConvIds :
        PreviousWasDueMonth(c) => turns[c][Len(turns[c])].intent = "invoices_due_this_month"

NluOfFollowUp == nlu_detect_intent(Text(FollowUpText))

\* C2 amended: no intent is carried from one turn to the next: the follow-up
\* "y el 22?" resolves to help whatever the previous turn of the conversation
\* resolved to, in the gateway's classifier and in the backend's.
C2_FollowUpIsHelp ==
    /\ NluOfFollowUp = "help"
    /\ \A c \in ConvIds : \A k \in 1..Len(turns[c]) :
           (turns[c][k].text = FollowUpText /\ turns[c][k].intent # "")
               => turns[c][k].intent = "help"

C2_Witness ==
    \E c \in ConvIds : PreviousWasDueMonth(c) /\ turns[c][Len(turns[c])].intent = "help"

HasRangeCue(w) == Occurs(RangeText, w)

\* C3 as the spec states it: a turn whose text holds the range cue
\* "próximas 2 semanas" resolves to invoices_due_next_days.
C3_RangeCueWins ==
    \A c \in ConvIds : \A k \in 1..Len(turns[c]) :
        (HasRangeCue(turns[c][k].text) /\ turns[c][k].intent # "")
            => turns[c][k].intent = "invoices_due_next_days"

NluOfRange == nlu_detect_intent(Text(RangeText))

NluOfDueRange == nlu_detect_intent(Text(DueText \o <<SP>> \o RangeText))

\* C3 amended: a range cue never decides the intent: "próximas 2 semanas"
\* alone resolves to help, after "facturas que vencen este mes" in the same
\* text it leaves invoices_due_this_month, whatever the previous turn was, in
\* both classifiers; invoices_due_next_days is never sent to the backend.
C3_RangeCueIgnored ==
    /\ NluOfRange = "help"
    /\ NluOfDueRange = "invoices_due_this_month"
    /\ "invoices_due_next_days" \notin runs
    /\ \A c \in ConvIds : \A k \in 1..Len(turns[c]) :
           (HasRangeCue(turns[c][k].text) /\ turns[c][k].intent # "")
               => turns[c][k].intent =
                      IF turns[c][k].text = RangeText THEN "help" ELSE "invoices_due_this_month"

\* the range cue was the second turn of a conversation whose first turn
\* resolved to another intent than help
C3_Witness ==
    \E c \in ConvIds :
        /\ Len(turns[c]) > 1
        /\ turns[c][1].intent \in {"invoices_due_this_month", "overdue_today", "top_clients_overdue"}
        /\ turns[c][Len(turns[c])].text = RangeText
        /\ turns[c][Len(turns[c])].intent = "help"

\* the intent the session of a conversation id holds: detected_intent of its
\* feedback_payload
LastIntentOf(cs, hp, c) ==
    IF c \in DOMAIN cs /\ hp[cs[c]].feedback_payload # None
    THEN Some(hp[cs[c]].feedback_payload[1].detected_intent)
    ELSE None

AwaitingOf(cs, hp, c) == c \in DOMAIN cs /\ hp[cs[c]].awaiting_feedback

Quiet(c) == \A h \in Handlers : handlers[h].pc = "idle" \/ handlers[h].conv # c

\* C4 as the spec states it: once a turn is served, the session's last
\* intent is the turn's intent, and none after a help turn.
C4_LastIntentStored ==
    \A c \in ConvIds :
        (Quiet(c) /\ turns[c] # <<>> /\ turns[c][Len(turns[c])].intent # "")
            => LastIntentOf(CONV_STATE, heap, c) =
                   IF turns[c][Len(turns[c])].intent = "help" THEN None
                   ELSE Some(turns[c][Len(turns[c])].intent)

\* what the turn that a step completes does to the session
C4_Step ==
    \A c \in ConvIds :
        turns'[c] # turns[c] =>
            LET t == turns'[c][Len(turns'[c])] IN
            /\ t.outcome = "no_rows" =>
                   /\ LastIntentOf(CONV_STATE', heap', c) = Some(t.intent)
                   /\ AwaitingOf(CONV_STATE', heap', c)
            /\ t.outcome \in {"help", "rows", "error", "reprompt"} =>
                   /\ CONV_STATE' = CONV_STATE
                   /\ heap' = heap
            /\ t.outcome \in {"opt_in", "declined"} =>
                   /\ LastIntentOf(CONV_STATE', heap', c) = None
                   /\ ~AwaitingOf(CONV_STATE', heap', c)

\* a conversation id without an entry in CONV_STATE was served without
\* context in every turn
C4_Unseen ==
    \A c \in ConvIds \ DOMAIN CONV_STATE : \A k \in 1..Len(turns[c]) :
        turns[c][k].outcome \in {"help", "rows", "error"}

\* C4 amended: the session holds a turn's intent (detected_intent of the
\* feedback payload, with awaiting_feedback set) only when the backend
\* replied without rows; a turn that ends with rows, with a backend error,
\* with help or with the repeated question leaves CONV_STATE as it was; the
\* answer to the question (guardar, crítico, luego) drops the intent; a
\* conversation id never stored is served without context.
C4_SessionUpdate == [][C4_Step]_vars /\ []C4_Unseen

\* a turn without rows left its intent in the session
C4_Witness ==
    \E c \in ConvIds :
        /\ turns[c] # <<>>
        /\ turns[c][Len(turns[c])].outcome = "no_rows"
        /\ LastIntentOf(CONV_STATE, heap, c) = Some(turns[c][Len(turns[c])].intent)

\* the flags of nlu_rules.detect_intent for the utterance, invoice after the
\* implicit upgrade
FlagsOf(text) ==
    LET f == ConceptFlags(strip(OrEmpty(text))) IN [f EXCEPT !.invoice = ImplicitInvoice(f)]

NonBlank(text) == strip(OrEmpty(text)) # <<>>

\* C5 as the spec states it: with invoice, (due or pending) and this_month
\* the intent is invoices_due_this_month, whatever the other flags are.
C5_DueMonthFirst ==
    (call = "nlu_detect_intent" /\ NonBlank(input)) =>
        LET f == FlagsOf(input) IN
        (f.invoice /\ (f.due \/ f.pending) /\ f.month) => ret = "invoices_due_this_month"

\* C5 amended: the intent with the greatest score wins and the listed order
\* (invoices_due_this_month, overdue_today, top_clients_overdue) only breaks
\* ties: with invoice, (due or pending) and this_month the intent is
\* top_clients_overdue when top and customer hold too (8 against 7), and
\* invoices_due_this_month otherwise; no score above 0 gives help.
C5_HighestScoreWins ==
    (call = "nlu_detect_intent" /\ NonBlank(input)) =>
        LET f == FlagsOf(input)
            sc == Score(f)
        IN /\ (f.invoice /\ (f.due \/ f.pending) /\ f.month) =>
                  ret = IF f.top /\ f.client THEN "top_clients_overdue"
                        ELSE "invoices_due_this_month"
           /\ IF \A j \in 1..Len(sc) : sc[j].pts = 0 THEN ret = "help"
              ELSE \E i \in 1..Len(sc) :
                      /\ sc[i].intent = ret
                      /\ \A j \in 1..Len(sc) :
                             /\ sc[j].pts <= sc[i].pts
                             /\ j < i => sc[j].pts < sc[i].pts

C5_Witness ==
    /\ call = "nlu_detect_intent"
    /\ input = Text(W2("que", "vencen") \o W2("este", "mes") \o W1("top") \o W1("clientes"))
    /\ ret = "top_clients_overdue"

\* C6 as the spec states it: a text with a vencid* word and "hoy" resolves
\* to overdue_today in both classifiers, with or without an invoice word.
C6_VencidHoy ==
    (call \in {"nlu_detect_intent", "detect_intent"}
     /\ HasTok({"vencidas", "vencido"}, Toks(input))
     /\ HasTok({"hoy"}, Toks(input)))
        => ret = "overdue_today"

\* the fragments of an SQL text that come after a value is interpolated
DaySlot == "EXTRACT(DAY FROM due_date) = "
WindowSlot == "due_date < CURRENT_DATE + INTERVAL '"
CurrencySlot == "currency = '"
DirectionSlots == {"ORDER BY amount_residual_num ", "ORDER BY due_date "}

\* the fragment before sql[k], "" for the first
Before(sql, k) == IF k = 1 THEN "" ELSE sql[k - 1]

\* every interpolated value of the SQL text is of its closed domain, and no
\* other fragment is a word of the utterance
ClosedDomains(sql, w) ==
    \A k \in 1..Len(sql) :
        IF Before(sql, k) = DaySlot THEN \E d \in 1..31 : sql[k] = ToString(d)
        ELSE IF Before(sql, k) = WindowSlot THEN \E n \in 1..12 : sql[k] = ToString(7 * n)
        ELSE IF Before(sql, k) = CurrencySlot THEN sql[k] \in {"USD", "PEN", "EUR"}
        ELSE IF Before(sql, k) \in DirectionSlots THEN sql[k] \in {"ASC", "DESC"}
        ELSE IF Before(sql, k) \in {" AS amount_residual, currency FROM ", "SELECT * FROM ",
                                     "COALESCE(MAX(currency),'') AS currency FROM "}
             THEN sql[k] = "odoo_replica.vw_invoices_semantic"
        ELSE sql[k] \notin {x \in Elems(w) : IsWord(x)}

\* the texts the SQL of an utterance is compared with
ProbeTexts == SubsetTexts(SubSeq(SqlCues, 2, 7))

\* for each probe text and intent argument: the modifiers and the SQL text
ProbeRows ==
    {[intent |-> i, mods |-> Modifiers(Text(w)), sql |-> generate_sql(i, Text(w)), text |-> w] :
        i \in IntentArgs, w \in ProbeTexts}

\* C7: every value interpolated into the SQL text is of a closed domain (day
\* 1..31, a window of 7..84 days in steps of 7, currency USD/PEN/EUR,
\* direction ASC/DESC, the one view), no word of the utterance is embedded,
\* and two utterances with the same extracted values and the same intent get
\* the same SQL text.
C7_SqlClosedDomains ==
    call = "generate_sql" =>
        /\ ClosedDomains(ret, OrEmpty(input))
        /\ \A p \in ProbeRows : (p.intent = arg /\ p.mods = mods) => p.sql = ret

\* the SQL of the month's invoices for an utterance with a day, a window, a
\* currency and a sort, which another text with the same values shares
C7_Witness ==
    /\ call = "generate_sql"
    /\ arg = Some("invoices_due_this_month")
    /\ mods.day = Some(13) /\ mods.weeks = Some(2) /\ mods.curr = Some("USD")
    /\ mods.sorting = Some(<<"amount", "ASC">>)
    /\ \E p \in ProbeRows : p.intent = arg /\ p.mods = mods /\ p.text # OrEmpty(input)

\* the positions of the day references of a text: a number of one or two
\* digits after "el" or "día", or before "de este mes" / "del presente mes"
DayRefs(w) ==
    {i \in 1..Len(w) :
        /\ w[i] \in DigitTokens12
        /\ \/ i > 2 /\ w[i - 1] = SP /\ w[i - 2] \in {"el", "día", "dia"}
           \/ EndsWith(<<w[i], SP, "de", SP, "este", SP, "mes">>, SubSeq(w, 1, Min2(Len(w), i + 6)))
           \/ EndsWith(<<w[i], SP, "del", SP, "presente", SP, "mes">>, SubSeq(w, 1, Min2(Len(w), i + 6)))}

ValidDayRefs(w) == {i \in DayRefs(w) : 1 <= ToInt(w[i]) /\ ToInt(w[i]) <= 31}

\* the first day reference of the text, in reading order, that is of 1..31
FirstValidDay(w) ==
    IF ValidDayRefs(w) = {} THEN None ELSE Some(ToInt(w[MinOf(ValidDayRefs(w))]))

\* C8 as the spec states it: the day is the first reference of the text with
\* a number of 1..31, a reference out of that range is ignored and does not
\* hide a later valid one, and without a valid reference there is no day.
C8_FirstValidDay ==
    call = "_extract_day" => ret = FirstValidDay(Toks(input))

WholeMonthCue == <<"todo", SP, "el", SP, "mes">>

HasDayFilter(sql) == DaySlot \in Elems(sql)

IsDueMonth(intent) == intent \in {Some("invoices_due_this_month"), Some("vencen_mes")}

\* C9 as the spec states it: with wording about the whole month the day and
\* the range are dropped and the SQL text has no day filter.
C9_WholeMonthOverrides ==
    (call = "generate_sql" /\ Occurs(WholeMonthCue, Toks(input))) =>
        /\ mods.day = None
        /\ mods.weeks = None
        /\ ~HasDayFilter(ret)

\* the texts of the SQL cues that end with " todo el mes"
EndWithWholeMonth ==
    {Text(u \o <<SP>> \o WholeMonthCue) : u \in SubsetTexts(SubSeq(SqlCues, 1, Len(SqlCues) - 1))}

\* C9 amended: wording about the whole month changes nothing: the modifiers
\* of a text that ends with "todo el mes" are those of the text without it,
\* "el 13" next to "todo el mes" still gives day 13, and the SQL text of the
\* month's invoices has the day filter exactly when a day was extracted.
C9_WholeMonthIgnored ==
    call = "generate_sql" =>
        LET w == Toks(input) IN
        /\ input \in EndWithWholeMonth
               => mods = Modifiers(Text(SubSeq(w, 1, Len(w) - Len(WholeMonthCue) - 1)))
        /\ (Occurs(WholeMonthCue, w) /\ Occurs(<<"el", SP, "13">>, w)
            /\ ~HasTok({"35", "5", "0", "del"}, w))
               => mods.day = Some(13)
        /\ IsDueMonth(arg) => (HasDayFilter(ret) <=> mods.day # None)

C9_Witness ==
    /\ call = "generate_sql"
    /\ arg = Some("invoices_due_this_month")
    /\ input = Text(W5("y", "de", "todo", "el", "mes") \o W3("además", "el", "13") \o <<"?">>)
    /\ mods.day = Some(13)
    /\ HasDayFilter(ret)

\* the range of an utterance in days, for the weeks _extract_weeks returns
RangeDays(weeks) == IF weeks = None THEN None ELSE Some(7 * weeks[1])

Leads == {"próximas", "siguientes"}
Units == {"semanas", "días"}

\* the numbers of the range phrases that are of 1..15, and their values
PhraseNumbers == ("3" :> 3) @@ ("dos" :> 2) @@ ("once" :> 11)

\* C10 as the spec states it: "próximas/siguientes N semanas" is a range of
\* 7*N days and "... N días" one of N days, N in digits or spelled (1..15);
\* the phrase without a number is a range of 2 weeks.
C10_RangeInDays ==
    call = "_extract_weeks" =>
        \A lead \in Leads, unit \in Units :
            /\ \A num \in DOMAIN PhraseNumbers :
                   input = Text(W1(lead) \o W1(num) \o W1(unit)) =>
                       RangeDays(ret) = Some(IF unit = "semanas" THEN 7 * PhraseNumbers[num]
                                             ELSE PhraseNumbers[num])
            /\ input = Text(W1(lead) \o W1(unit)) => RangeDays(ret) = Some(14)

\* C10 amended: only weeks are a unit: "próximas/siguientes N semanas" gives
\* N weeks for N in digits, clamped to 1..12 (0 gives 1, 100 gives 12), and
\* for N spelled from una/un/uno to diez ("once" gives no range);
\* "próximas semanas" without a number gives 2 weeks, "siguientes semanas"
\* gives no range, and a phrase in días gives no range.
C10_RangeInWeeks ==
    call = "_extract_weeks" =>
        \A lead \in Leads :
            /\ \A num \in {"3", "0", "100", "dos", "once"} :
                   /\ input = Text(W1(lead) \o W1(num) \o W1("días")) => ret = None
                   /\ input = Text(W1(lead) \o W1(num) \o W1("semanas")) =>
                          ret = CASE num = "3" -> Some(3)
                                  [] num = "0" -> Some(1)
                                  [] num = "100" -> Some(12)
                                  [] num = "dos" -> Some(2)
                                  [] num = "once" -> None
            /\ input = Text(W1(lead) \o W1("días")) => ret = None
            /\ input = Text(W1(lead) \o W1("semanas")) =>
                   ret = IF lead = "próximas" THEN Some(2) ELSE None

C10_Witness ==
    /\ call = "_extract_weeks"
    /\ input = Text(W1("siguientes") \o W1("100") \o W1("semanas"))
    /\ ret = Some(12)

\* the range phrases whose number is outside the bound: 0 weeks, and 100
\* weeks (more than 90 days)
OutOfBoundRanges ==
    {Text(W1(lead) \o W1(num) \o W1("semanas")) : lead \in Leads, num \in {"0", "100"}}

\* the number interpolated into the window of an SQL text, None without one
WindowDays(sql) ==
    IF \E k \in 1..(Len(sql) - 1) : sql[k] = WindowSlot
    THEN Some(sql[(CHOOSE k \in 1..(Len(sql) - 1) : sql[k] = WindowSlot) + 1])
    ELSE None

\* C11 as the spec states it: an extracted range is of 1..90 days, never zero
\* or negative, and a range phrase whose number is outside the bound (0, or
\* 100 weeks) gives no range.
C11_OutOfBoundRejected ==
    call = "_extract_weeks" =>
        /\ ret # None => 7 * ret[1] \in 1..90
        /\ input \in OutOfBoundRanges => ret = None

\* C11 amended: an extracted range is of 1..12 weeks, so of 7..84 days and
\* never zero or negative, and the window of the SQL text for the month's
\* invoices is that number of days; a number of weeks in digits outside 1..12
\* is not rejected but clamped to the nearest bound (0 gives 1 week, 100 gives
\* 12 weeks).
C11_RangeClamped ==
    /\ call = "_extract_weeks" =>
           /\ ret # None => ret[1] \in 1..12
           /\ input \in OutOfBoundRanges =>
                  ret = IF input.toks[4] = "0" THEN Some(1) ELSE Some(12)
    /\ (call = "generate_sql" /\ IsDueMonth(arg)) =>
           /\ mods.weeks # None => mods.weeks[1] \in 1..12
           /\ WindowDays(ret) = IF mods.weeks = None THEN None
                                ELSE Some(ToString(7 * mods.weeks[1]))
           /\ input \in OutOfBoundRanges =>
                  WindowDays(ret) = IF input.toks[4] = "0" THEN Some("7") ELSE Some("84")

\* the SQL of the month's invoices for "próximas 100 semanas": a window of 84
\* days
C11_Witness ==
    /\ call = "generate_sql"
    /\ arg = Some("invoices_due_this_month")
    /\ input = Text(W1("próximas") \o W1("100") \o W1("semanas"))
    /\ mods.weeks = Some(12)
    /\ WindowDays(ret) = Some("84")

\* the field words and the direction cues of an utterance, read off its
\* tokens
AmountWords == {"monto", "importe", "saldo", "residual"}
DateWords == {"fecha", "vencimiento", "vencen", "due"}

DescCue(w) ==
    \/ Occurs(<<"de", SP, "mayor", SP, "a", SP, "menor">>, w)
    \/ HasTok({"desc", "descendente", "mayores"}, w)
    \/ Occurs(<<"mas", SP, "altas">>, w) \/ Occurs(<<"más", SP, "altas">>, w)

AscCue(w) ==
    \/ Occurs(<<"de", SP, "menor", SP, "a", SP, "mayor">>, w)
    \/ HasTok({"asc", "ascendente", "menores"}, w)
    \/ Occurs(<<"mas", SP, "bajas">>, w) \/ Occurs(<<"más", SP, "bajas">>, w)

\* C12: the extracted sort is absent when no field word occurs; with a field
\* word (amount before date) the direction is that of the direction cue
\* (descending before ascending), and without a cue DESC for amount and ASC
\* for date.
C12_SortPreference ==
    call = "_extract_sort" =>
        LET w == Toks(input)
            amount == HasTok(AmountWords, w)
            date == HasTok(DateWords, w)
        IN /\ (~amount /\ ~date) => ret = None
           /\ (amount \/ date) =>
                  /\ ret # None
                  /\ ret[1][1] = IF amount THEN "amount" ELSE "date"
                  /\ DescCue(w) => ret[1][2] = "DESC"
                  /\ (AscCue(w) /\ ~DescCue(w)) => ret[1][2] = "ASC"
                  /\ (~AscCue(w) /\ ~DescCue(w)) =>
                         ret[1][2] = IF amount THEN "DESC" ELSE "ASC"

\* an amount word without a direction cue: descending by default
C12_Witness ==
    /\ call = "_extract_sort"
    /\ input = Text(W2("en", "dólares") \o W2("por", "monto"))
    /\ ret = Some(<<"amount", "DESC">>)

\* the currencies an utterance mentions, by code, name or symbol
MentionsUSD(w) == HasTok({"usd", "dolar", "dólar", "dolares", "dólares", "$"}, w)
MentionsPEN(w) == HasTok({"pen", "sol", "soles"}, w) \/ Occurs(<<"s", "/">>, w)
MentionsEUR(w) == HasTok({"eur", "euro", "euros", "€"}, w)

\* C13: a mention of USD/dólar(es), PEN/sol(es) or EUR/euro(s), the bare
\* symbols "$", "S/" and "€" included, gives the 3-letter code; the result is
\* one of USD, PEN, EUR or absent, and a text that mentions none of them
\* gives absent.
C13_CurrencyNormalized ==
    call = "_extract_currency" =>
        LET w == Toks(input) IN
        /\ ret \in {None, Some("USD"), Some("PEN"), Some("EUR")}
        /\ (MentionsUSD(w) /\ ~MentionsPEN(w) /\ ~MentionsEUR(w)) => ret = Some("USD")
        /\ (MentionsPEN(w) /\ ~MentionsUSD(w) /\ ~MentionsEUR(w)) => ret = Some("PEN")
        /\ (MentionsEUR(w) /\ ~MentionsUSD(w) /\ ~MentionsPEN(w)) => ret = Some("EUR")
        /\ (~MentionsUSD(w) /\ ~MentionsPEN(w) /\ ~MentionsEUR(w)) => ret = None

\* the fragment of an SQL text that follows the fragment slot, None without
\* the slot
ValueAfter(sql, slot) ==
    IF \E k \in 1..(Len(sql) - 1) : sql[k] = slot
    THEN Some(sql[(CHOOSE k \in 1..(Len(sql) - 1) : sql[k] = slot) + 1])
    ELSE None

\* how many fragments of an SQL text are the fragment f
Count(sql, f) == Cardinality({k \in 1..Len(sql) : sql[k] = f})

MonthCondition == "date_trunc('month', due_date) = date_trunc('month', CURRENT_DATE)"

\* the ORDER BY of an SQL text for a sort pair
OrderByOf(sorting) ==
    IF sorting = None THEN <<"ORDER BY due_date, customer">>
    ELSE IF sorting[1][1] = "amount"
    THEN <<"ORDER BY amount_residual_num ", sorting[1][2], ", due_date">>
    ELSE <<"ORDER BY due_date ", sorting[1][2], ", customer">>

\* the WHERE clause and the ORDER BY of the SQL text of the invoices that are
\* due, for the modifiers m: is_pending, then either the month condition or
\* the window, a day condition iff there is a day, a currency condition iff
\* there is a currency, all joined by AND; the ORDER BY of the sort pair
DueWhereShape(sql, m) ==
    LET window == ValueAfter(sql, WindowSlot) # None
        month == MonthCondition \in Elems(sql)
        conditions == 2 + (IF window THEN 1 ELSE 0) + (IF m.day # None THEN 1 ELSE 0)
                        + (IF m.curr # None THEN 1 ELSE 0)
    IN /\ ValueAfter(sql, " WHERE ") = Some("is_pending")
       /\ window # month
       /\ window <=> m.weeks # None
       /\ window <=> "due_date >= CURRENT_DATE" \in Elems(sql)
       /\ window => ValueAfter(sql, WindowSlot) = Some(ToString(7 * m.weeks[1]))
       /\ ValueAfter(sql, DaySlot) = IF m.day = None THEN None ELSE Some(ToString(m.day[1]))
       /\ ValueAfter(sql, CurrencySlot) = m.curr
       /\ Count(sql, " AND ") = conditions - 1
       /\ EndsWith(<<" ">> \o OrderByOf(m.sorting), sql)

\* C14 as the spec states it: for the intents invoices_due_this_month and
\* invoices_due_next_days the WHERE clause is is_pending AND exactly one of
\* the month condition (no range) or the window (a range), AND a day
\* condition iff a day was extracted, AND a currency condition iff a currency
\* was; the ORDER BY follows the sort pair or is the default.
C14_DueNextDaysWhere ==
    (call = "generate_sql"
     /\ arg \in {Some("invoices_due_this_month"), Some("invoices_due_next_days")})
        => DueWhereShape(ret, mods)

\* C14 amended: that shape is the SQL text of the intent
\* invoices_due_this_month (and of its alias vencen_mes); the intent
\* invoices_due_next_days is not a label of generate_sql and gets the
\* fallback text, without a WHERE clause, whatever the utterance.
C14_DueMonthWhere ==
    call = "generate_sql" =>
        /\ IsDueMonth(arg) => DueWhereShape(ret, mods)
        /\ arg = Some("invoices_due_next_days") =>
               ret = <<"SELECT * FROM ", "odoo_replica.vw_invoices_semantic", " LIMIT 50">>

\* the month's invoices for an utterance with a range, a day and a currency:
\* the window without the month condition
C14_Witness ==
    /\ call = "generate_sql"
    /\ arg = Some("vencen_mes")
    /\ mods.weeks # None /\ mods.day # None /\ mods.curr # None /\ mods.sorting = None
    /\ ValueAfter(ret, WindowSlot) = Some("14")
    /\ MonthCondition \notin Elems(ret)

IsOverdueToday(intent) == intent \in {Some("overdue_today"), Some("OVERDUE_TODAY")}

\* the SQL text of overdue_today for the utterance None
OverdueOfNoText == generate_sql(Some("overdue_today"), NoneText)

\* C15: for intent overdue_today the SQL text is the same for every
\* utterance: the WHERE clause is the overdue flag only, without a day, a
\* window or a currency condition, and the text ends with ORDER BY
\* days_overdue DESC whatever sort the utterance names.
C15_OverdueTodayFixed ==
    (call = "generate_sql" /\ IsOverdueToday(arg)) =>
        /\ ret = OverdueOfNoText
        /\ EndsWith(<<" WHERE is_overdue", " ", "ORDER BY days_overdue DESC">>, ret)
        /\ Count(ret, " AND ") = 0
        /\ ValueAfter(ret, DaySlot) = None
        /\ ValueAfter(ret, WindowSlot) = None
        /\ ValueAfter(ret, CurrencySlot) = None
        /\ \A k \in 1..Len(ret) : ret[k] \notin DirectionSlots

\* overdue_today for an utterance with a range, a day, a currency and a sort
C15_Witness ==
    /\ call = "generate_sql"
    /\ arg = Some("overdue_today")
    /\ mods.weeks # None /\ mods.day # None /\ mods.curr # None /\ mods.sorting # None
    /\ ret = OverdueOfNoText

IsTopClients(intent) == intent = Some("top_clients_overdue")

\* for each currency, the SQL text of top_clients_overdue for an utterance
\* that names the currency and nothing else
TopOfCurrency ==
    (None :> generate_sql(Some("top_clients_overdue"), NoneText))
    @@ (Some("USD") :> generate_sql(Some("top_clients_overdue"), Text(<<"USD">>)))
    @@ (Some("PEN") :> generate_sql(Some("top_clients_overdue"), Text(<<"en", SP, "pen">>)))
    @@ (Some("EUR") :> generate_sql(Some("top_clients_overdue"), Text(<<"eur">>)))

RecognizedLabels ==
    {"invoices_due_this_month", "vencen_mes", "facturas_vencen_mes", "overdue_today",
     "vencidas_hoy", "top_clients_overdue", "top_clientes_vencido"}

\* the intent arguments that are none of them, None and "" included
Unrecognized(intent) ==
    intent = None \/ (intent[1] \notin RecognizedLabels /\ intent[1] # "OVERDUE_TODAY")

\* C17: generate_sql returns a text for every intent and every utterance (None
\* included); for an intent outside the recognized labels (help, "", None,
\* any other label) the text is SELECT * FROM <the view> LIMIT 50 whatever the
\* utterance.
C17_FallbackTotal ==
    call = "generate_sql" =>
        /\ Len(ret) > 0
        /\ ret[1] \in {"SELECT * FROM ", "SELECT customer, SUM(amount_residual) AS overdue_balance_num, ",
                       "SELECT invoice_number, customer, due_date, amount_residual AS amount_residual_num, ",
                       "SELECT invoice_number, customer, due_date, days_overdue, amount_residual AS amount_residual_num, "}
        /\ Unrecognized(arg) <=>
               ret = <<"SELECT * FROM ", "odoo_replica.vw_invoices_semantic", " LIMIT 50">>

\* the intent None with an utterance that has a day, a range, a currency and
\* a sort
C17_Witness ==
    /\ call = "generate_sql"
    /\ arg = None
    /\ mods.weeks # None /\ mods.day # None /\ mods.curr # None /\ mods.sorting # None
    /\ ret = <<"SELECT * FROM ", "odoo_replica.vw_invoices_semantic", " LIMIT 50">>

\* the concepts matched in a text, before any inference
RawFlags(text) == ConceptFlags(strip(OrEmpty(text)))

\* the text with the invoice synonym "facturas" added at its end
WithInvoice(text) == Text(OrEmpty(text) \o W1("facturas"))

\* C18: a text without an invoice synonym but with a pending, due or top
\* synonym gets the intent it gets with an invoice synonym added, whatever
\* its other concepts are; without any of pending, due and top the invoice
\* concept stays absent, and then no rule scores: the intent is help even with
\* a month or a today synonym.
C18_ImplicitInvoice ==
    (call = "nlu_detect_intent" /\ NonBlank(input)) =>
        LET f == RawFlags(input) IN
        /\ (~f.invoice /\ (f.pending \/ f.due \/ f.top)) =>
               /\ RawFlags(WithInvoice(input)) = [f EXCEPT !.invoice = TRUE]
               /\ ret = nlu_detect_intent(WithInvoice(input))
        /\ (~f.invoice /\ ~(f.pending \/ f.due \/ f.top)) => ret = "help"

\* "pendientes este mes", without a word for invoices
C18_Witness ==
    /\ call = "nlu_detect_intent"
    /\ input = Text(W1("pendientes") \o W2("este", "mes"))
    /\ ~RawFlags(input).invoice
    /\ ret = "invoices_due_this_month"

\* C19: for a sort pair whose field is outside {amount, date} or whose
\* direction is outside {ASC, DESC}, _order_by_clause returns ORDER BY
\* due_date, customer, and neither the field nor the direction is a fragment
\* of its result.
C19_RefusesOutOfEnum ==
    (call = "_order_by_clause" /\ mods.sorting # None) =>
        LET field == mods.sorting[1][1]
            direction == mods.sorting[1][2]
        IN (field \notin {"amount", "date"} \/ direction \notin {"ASC", "DESC"}) =>
               /\ ret = <<"ORDER BY due_date, customer">>
               /\ field \notin Elems(ret)
               /\ direction \notin Elems(ret)

PayloadOf(cs, hp, c) == IF c \in DOMAIN cs THEN hp[cs[c]].feedback_payload ELSE None

\* the step receives a message of conversation c: a handler takes it and is
\* suspended at an await, or its turn is already logged
Suspends(c, h) ==
    handlers[h].pc = "idle" /\ handlers'[h].pc # "idle" /\ handlers'[h].conv = c

Receives(c) ==
    nmsgs' = nmsgs + 1 /\ (turns'[c] # turns[c] \/ \E h \in Handlers : Suspends(c, h))

\* the text and the intent of that message, and how its handler goes on
Received(c) ==
    IF turns'[c] # turns[c]
    THEN [text |-> turns'[c][Len(turns'[c])].text,
          intent |-> turns'[c][Len(turns'[c])].intent,
          pc |-> turns'[c][Len(turns'[c])].outcome]
    ELSE LET h == CHOOSE h \in Handlers : Suspends(c, h) IN
         [text |-> handlers'[h].text, intent |-> handlers'[h].intent, pc |-> handlers'[h].pc]

\* the step is the return of handler h of conversation c from POST
\* /n2sql/run with outcome o, or from POST /learning/feedback (o = "opt_in")
Returns(c, h, o) ==
    /\ handlers[h].pc \in {"post_run", "post_feedback"}
    /\ handlers[h].conv = c
    /\ handlers'[h].pc = "idle"
    /\ turns'[c] # turns[c]
    /\ turns'[c][Len(turns'[c])].n = handlers[h].n
    /\ turns'[c][Len(turns'[c])].outcome = o

\* what a step does to the consent of conversation c
C20_Step ==
    \A c \in ConvIds :
        LET awaiting == AwaitingOf(CONV_STATE, heap, c)
            awaiting2 == AwaitingOf(CONV_STATE', heap', c)
            cleared == ~awaiting2 /\ PayloadOf(CONV_STATE', heap', c) = None
        IN
        /\ (~awaiting /\ awaiting2) =>
               \E h \in Handlers :
                   /\ Returns(c, h, "no_rows")
                   /\ handlers[h].pc = "post_run"
                   /\ handlers[h].intent \notin {"", "help"}
        /\ (awaiting /\ Receives(c)) =>
               LET m == Received(c)
                   yes == _user_says_yes(Text(m.text)) \/ _user_says_critical(Text(m.text))
                   no == _user_says_no(Text(m.text))
               IN /\ m.intent = ""
                  /\ m.pc # "post_run"
                  /\ runs' = runs
                  /\ yes => (m.pc = "post_feedback" /\ posted'[c] = posted[c] + 1)
                  /\ (~yes /\ no) => (m.pc = "declined" /\ cleared)
                  /\ (~yes /\ ~no) =>
                         /\ m.pc = "reprompt"
                         /\ sent'[c] = "reprompt"
                         /\ CONV_STATE' = CONV_STATE
                         /\ heap' = heap
        /\ \A h \in Handlers :
               Returns(c, h, "opt_in") => (cleared /\ sent'[c] \in {"saved", "noted"})

\* C20: per conversation, awaiting_feedback becomes true only when a
\* handler returns from POST /n2sql/run of a non-help intent with a reply
\* without rows; a message received while it is true reaches neither intent
\* detection nor /n2sql/run; with a yes or critical word the feedback is
\* posted and, on return of the POST, failed or not, awaiting_feedback is
\* false and feedback_payload None; else with a no word they are so at once;
\* any other message leaves CONV_STATE as it was and the question is asked
\* again.
C20_ConsentFlow == [][C20_Step]_vars

\* a conversation whose offer was accepted and whose feedback POST failed:
\* the consent is cleared all the same
C20_Witness ==
    /\ Len(turns["c1"]) = 2
    /\ turns["c1"][1].outcome = "no_rows"
    /\ turns["c1"][2].outcome = "opt_in"
    /\ sent["c1"] = "noted"
    /\ "c1" \in DOMAIN CONV_STATE
    /\ ~AwaitingOf(CONV_STATE, heap, "c1")
    /\ PayloadOf(CONV_STATE, heap, "c1") = None

\* C21: for every conversation and every interleaving of the handlers, the
\* POSTs to /learning/feedback are at most as many as the times
\* awaiting_feedback went from false to true: each prompt leads to at most
\* one POST.
C21_OnePostPerPrompt == \A c \in ConvIds : posted[c] <= prompts[c]

\* the texts the classifiers are applied to: every combination of the cue
\* words of the concepts, the texts without a cue, the messages
ClassifiedTexts ==
    {Text(w) : w \in SubsetTexts(IntentCues) \cup SpecialTexts \cup {TopClientsText}}
    \cup Messages

\* the intents the two classifiers return for them, help apart
ClassifiedLabels ==
    ({nlu_detect_intent(i) : i \in ClassifiedTexts}
     \cup {detect_intent(i) : i \in ClassifiedTexts}) \ {"help"}

\* the SQL text is the template of the intent: the month's invoices that are
\* pending, the overdue invoices by days overdue, the top clients by balance
OwnTemplate(intent, sql) ==
    /\ sql[1] # "SELECT * FROM "
    /\ CASE intent = "invoices_due_this_month" ->
                /\ sql[1] = "SELECT invoice_number, customer, due_date, amount_residual AS amount_residual_num, "
                /\ ValueAfter(sql, " WHERE ") = Some("is_pending")
         [] intent = "overdue_today" ->
                /\ sql[1] = "SELECT invoice_number, customer, due_date, days_overdue, amount_residual AS amount_residual_num, "
                /\ EndsWith(<<" WHERE is_overdue", " ", "ORDER BY days_overdue DESC">>, sql)
         [] intent = "top_clients_overdue" ->
                /\ sql[1] = "SELECT customer, SUM(amount_residual) AS overdue_balance_num, "
                /\ EndsWith(<<"ORDER BY overdue_balance_num DESC", " ", "LIMIT 10">>, sql)
         [] OTHER -> FALSE

\* every classified label has its template, whatever the utterance
LabelsRendered ==
    \A i \in ClassifiedLabels :
        /\ OwnTemplate(i, generate_sql(Some(i), NoneText))
        /\ OwnTemplate(i, generate_sql(Some(i), Text(TopClientsText \o <<SP>> \o RangeText)))

\* for each text of a message and each classified label, the SQL text of the
\* request the gateway sends to /n2sql/run
RunRows ==
    {[text |-> strip(OrEmpty(m)), intent |-> i, sql |-> generate_sql(Some(i), m)] :
        m \in Messages, i \in ClassifiedLabels}

\* C22: every intent other than help that one of the two classifiers returns
\* is rendered by generate_sql with the template of that intent, never with
\* the fallback; the requests the gateway sends to /n2sql/run carry such an
\* intent, never help, and the SQL text of their intent and utterance is the
\* intent's template.
C22_LabelsAgree ==
    /\ LabelsRendered
    /\ runs \subseteq ClassifiedLabels
    /\ \A h \in Handlers :
           handlers[h].pc = "post_run" =>
               /\ handlers[h].intent \in runs
               /\ \A r \in RunRows :
                      (r.text = handlers[h].text /\ r.intent = handlers[h].intent)
                          => OwnTemplate(r.intent, r.sql)

\* requests of all three intents were sent, and one is awaited
C22_Witness ==
    /\ runs = {"invoices_due_this_month", "overdue_today", "top_clients_overdue"}
    /\ runs = ClassifiedLabels
    /\ \E h \in Handlers :
           /\ handlers[h].pc = "post_run"
           /\ handlers[h].intent = "top_clients_overdue"
           /\ \E r \in RunRows : r.text = handlers[h].text /\ r.intent = handlers[h].intent

====
